---- MODULE Spec2Model ----
(***************************************************************************)
(* Model of the configuration-validation engine of ai-recipe-api:          *)
(* env_manager.py (schema, validator, accessors, report), the diagnostics  *)
(* endpoints and module start-up of main.py, and the command line tool     *)
(* validate_config.py.                                                     *)
(*                                                                         *)
(* Python strings that the code inspects (environment values, defaults)    *)
(* are sequences of one-character strings.  Optional[str] is a sequence of *)
(* at most one string: None is <<>>, a present value s is <<s>>.           *)
(* The source's messages are Chinese text; they appear here as ASCII       *)
(* renderings, an f-string as the pair <<fixed text, interpolated value>>. *)
(***************************************************************************)
EXTENDS Naturals, Sequences, FiniteSets, TLC

VARIABLES
    launchEnv,      \* the environment a process of this deployment is started with
    env,            \* os.environ of the service / library process
    schemaDefect,   \* schema entries whose validator callable raises when called
    started,        \* main.py has been loaded (lines 13-27 have run)
    startupReport,  \* main.config_report, the report of main.py line 17
    appOrigins,     \* main._origins and main._allow_credentials (CORS middleware)
    report,         \* per EnvironmentManager instance: the last validation call
    last,           \* the last HTTP response or command line run, as observed
    frames,         \* where each concurrent call of validate_environment_variables stands
    locals          \* the local variables items, has_errors, has_warnings of each call

vars ==
    <<launchEnv, env, schemaDefect, started, startupReport, appOrigins, report, last,
      frames, locals>>

----------------------------------------------------------------------------
(* Strings *)

None == <<>>

Some(s) == <<s>>

IsNone(v) == v = None

Rep(c, n) == [i \in 1..n |-> c]

StartsWith(s, p) ==
    /\ Len(s) >= Len(p)
    /\ SubSeq(s, 1, Len(p)) = p

\* str.startswith(tuple): true when any of the prefixes matches
StartsWithAny(s, ps) == \E p \in ps : StartsWith(s, p)

Whitespace == {" ", "\t", "\n", "\r"}

Letters ==
    {"a","b","c","d","e","f","g","h","i","j","k","l","m","n","o","p","q","r","s","t",
     "u","v","w","x","y","z","A","B","C","D","E","F","G","H","I","J","K","L","M","N",
     "O","P","Q","R","S","T","U","V","W","X","Y","Z"}

Digits == {"0","1","2","3","4","5","6","7","8","9"}

RECURSIVE LStrip(_)
LStrip(s) ==
    IF s = <<>> THEN <<>>
    ELSE IF Head(s) \in Whitespace THEN LStrip(Tail(s)) ELSE s

RECURSIVE RStrip(_)
RStrip(s) ==
    IF s = <<>> THEN <<>>
    ELSE IF s[Len(s)] \in Whitespace THEN RStrip(SubSeq(s, 1, Len(s) - 1)) ELSE s

\* str.strip()
Strip(s) == RStrip(LStrip(s))

\* str.split(","): the pieces between the commas, empty pieces kept
RECURSIVE SplitFrom(_, _, _)
SplitFrom(s, i, cur) ==
    IF i > Len(s) THEN <<cur>>
    ELSE IF s[i] = "," THEN <<cur>> \o SplitFrom(s, i + 1, <<>>)
    ELSE SplitFrom(s, i + 1, Append(cur, s[i]))

Split(s) == SplitFrom(s, 1, <<>>)

ConsNonEmpty(o, tail) == IF o # <<>> THEN <<o>> \o tail ELSE tail

\* [o.strip() for o in parts if o.strip()]
RECURSIVE StripNonEmpty(_)
StripNonEmpty(parts) ==
    IF parts = <<>> THEN <<>>
    ELSE ConsNonEmpty(Strip(Head(parts)), StripNonEmpty(Tail(parts)))

AllIn(s, chars) == \A i \in 1..Len(s) : s[i] \in chars

\* The position of the first c in s at or after i, 0 when there is none
RECURSIVE IndexFrom(_, _, _)
IndexFrom(s, c, i) ==
    IF i > Len(s) THEN 0
    ELSE IF s[i] = c THEN i ELSE IndexFrom(s, c, i + 1)

IndexOf(s, c) == IndexFrom(s, c, 1)

----------------------------------------------------------------------------
(* env_manager.py: ConfigStatus, the schema tables and their validators *)

ConfigStatus == {"VALID", "MISSING", "INVALID", "WARNING"}

\* Enum member -> its .value
StatusValue(s) ==
    CASE s = "VALID" -> "valid"
      [] s = "MISSING" -> "missing"
      [] s = "INVALID" -> "invalid"
      [] s = "WARNING" -> "warning"

DEFAULT_SECRET_KEY ==
    <<"0","9","d","2","5","e","0","9","4","f","a","a","6","c","a","2","5","5","6","c",
      "8","1","8","1","6","6","b","7","a","9","5","6","3","b","9","3","f","7","0","9",
      "9","f","6","f","0","f","4","c","a","a","6","c","f","6","3","b","8","8","e","8",
      "d","3","e","7">>

DEFAULT_CORS_ORIGINS ==
    <<"h","t","t","p",":","/","/","l","o","c","a","l","h","o","s","t",":","5","1","7","3">>

DEFAULT_DATABASE_URL ==
    <<"s","q","l","i","t","e",":","/","/","/",".","/","r","e","c","i","p","e","s",".","d","b">>

DEFAULT_API_BASE_URL ==
    <<"h","t","t","p",":","/","/","l","o","c","a","l","h","o","s","t",":","8","0","0","0">>

SqlitePrefix == <<"s","q","l","i","t","e",":","/","/">>

PostgresqlPrefix == <<"p","o","s","t","g","r","e","s","q","l",":","/","/">>

MysqlPrefix == <<"m","y","s","q","l",":","/","/">>

DatabasePrefixes == {SqlitePrefix, PostgresqlPrefix, MysqlPrefix}

HttpsPrefix == <<"h","t","t","p","s",":","/","/">>

HttpPrefix == <<"h","t","t","p",":","/","/">>

MinSecretKeyLen == 32

REQUIRED_VARS ==
    << [ name |-> "SECRET_KEY",
         description |-> "JWT key",
         error_msg |-> "SECRET_KEY must be at least 32 characters" ],
       [ name |-> "CORS_ORIGINS",
         description |-> "CORS allowed origins",
         error_msg |-> "CORS_ORIGINS format invalid, expected a comma separated URL list" ] >>

OPTIONAL_VARS ==
    << [ name |-> "DATABASE_URL",
         description |-> "database connection URL",
         error_msg |-> "DATABASE_URL format invalid",
         default |-> Some(DEFAULT_DATABASE_URL) ],
       [ name |-> "RAILWAY_STATIC_URL",
         description |-> "Railway static URL",
         error_msg |-> "RAILWAY_STATIC_URL must be an HTTPS URL",
         default |-> None ] >>

Names(table) == { table[i].name : i \in 1..Len(table) }

RequiredNames == Names(REQUIRED_VARS)

OptionalNames == Names(OPTIONAL_VARS)

VarNames == RequiredNames \cup OptionalNames

\* The character class [a-zA-Z0-9.-]
HostChars == Letters \cup Digits \cup {".", "-"}

\* [a-zA-Z0-9.-]+(?::\d+)?$ : a host, and digits after a colon when there is one
HostAndPortMatch(host, port, has_port) ==
    /\ host # <<>>
    /\ AllIn(host, HostChars)
    /\ has_port => (port # <<>> /\ AllIn(port, Digits))

\* r is what follows the scheme, colon the position of its first ":" (0: none)
AuthorityMatches(r, colon) ==
    HostAndPortMatch(IF colon = 0 THEN r ELSE SubSeq(r, 1, colon - 1),
                     IF colon = 0 THEN <<>> ELSE SubSeq(r, colon + 1, Len(r)),
                     colon # 0)

RestMatches(r) == AuthorityMatches(r, IndexOf(r, ":"))

AfterPrefix(s, p) == SubSeq(s, Len(p) + 1, Len(s))

\* re.match(r'^https?://[a-zA-Z0-9.-]+(?::\d+)?$', origin) on a stripped origin
OriginPatternMatches(origin) ==
    IF StartsWith(origin, HttpsPrefix) THEN RestMatches(AfterPrefix(origin, HttpsPrefix))
    ELSE IF StartsWith(origin, HttpPrefix) THEN RestMatches(AfterPrefix(origin, HttpPrefix))
    ELSE FALSE

\* Variant: the check of line 93 is left out, so a value without any origin passes
EveryOriginValidOrNone(origins) ==
    \A i \in 1..Len(origins) :
        origins[i] = <<"*">> \/ OriginPatternMatches(origins[i])


\* Lines 93-103 of _validate_cors_origins, on the stripped non-empty origins
EveryOriginValid(origins) ==
    /\ origins # <<>>
    /\ \A i \in 1..Len(origins) :
          origins[i] = <<"*">> \/ OriginPatternMatches(origins[i])

\* EnvironmentManager._validate_cors_origins
validate_cors_origins(origins_str) ==
    IF origins_str = <<>> THEN FALSE
    ELSE EveryOriginValid(StripNonEmpty(Split(origins_str)))

\* Variant: SECRET_KEY has to be longer than the minimum
ValidatorLongerKey(name, x) ==
    CASE name = "SECRET_KEY" -> Len(x) > MinSecretKeyLen
      [] name = "CORS_ORIGINS" -> validate_cors_origins(x)
      [] name = "DATABASE_URL" -> StartsWithAny(x, DatabasePrefixes)
      [] name = "RAILWAY_STATIC_URL" -> StartsWith(x, HttpsPrefix)


\* config["validator"] of each schema entry, as shipped
Validator(name, x) ==
    CASE name = "SECRET_KEY" -> Len(x) >= MinSecretKeyLen
      [] name = "CORS_ORIGINS" -> validate_cors_origins(x)
      [] name = "DATABASE_URL" -> StartsWithAny(x, DatabasePrefixes)
      [] name = "RAILWAY_STATIC_URL" -> StartsWith(x, HttpsPrefix)

\* os.getenv(name) on environment e
Getenv(e, name) == e[name]

\* Python truthiness of an Optional[str]: neither None nor ""
Truthy(v) == ~IsNone(v) /\ v[1] # <<>>

----------------------------------------------------------------------------
(* env_manager.py: ConfigItem, ConfigReport, validate_environment_variables *)

ConfigItem(name, value, status, message, required) ==
    [ name |-> name, value |-> value, status |-> status,
      message |-> message, required |-> required ]

ConfigReport(items, overall_status, summary) ==
    [ items |-> items, overall_status |-> overall_status, summary |-> summary ]

\* The outcome of a call that ended with an exception instead of a return value
InternalError == [ raised |-> TRUE ]

IsReport(r) == r # InternalError

\* Variant: a try/except around the validator that turns its exception into False
CallValidatorSwallowing(config, x) ==
    IF config.name \in schemaDefect THEN "false"
    ELSE IF Validator(config.name, x) THEN "true" ELSE "false"

\* config["validator"](value): the bool returned, or "raise" when the callable
\* raises; the shipped validators return a bool for every str
CallValidator(config, x) ==
    IF config.name \in schemaDefect THEN "raise"
    ELSE IF Validator(config.name, x) THEN "true" ELSE "false"

\* Variant: items kept in a list shared by the calls (a class attribute or a
\* mutable default) instead of a fresh local list
LeakedItems ==
    IF report[1].called /\ report[1].result # InternalError
    THEN report[1].result.items
    ELSE <<>>

\* items = []
InitialItems == <<>>

\* The locals of validate_environment_variables at line 122
InitialState ==
    [ items |-> InitialItems, has_errors |-> FALSE, has_warnings |-> FALSE,
      raised |-> FALSE ]

MissingMessage(config) == <<"missing required environment variable: ", config.description>>

ValidMessage(config) == <<"OK: configured correctly: ", config.description>>

DefaultMessage(default_value) == <<"using default value: ", default_value>>

UnsetMessage(config) == <<"optional variable not set: ", config.description>>

ErrorMessage(config) == <<config.error_msg, "">>

\* Variant: a required value that fails its validator is reported as a warning
RequiredCheckedAsWarning(acc, config, value, ok) ==
    IF ok = "raise"
    THEN [acc EXCEPT !.raised = TRUE]
    ELSE IF ok = "false"
    THEN [acc EXCEPT
            !.items = Append(@, ConfigItem(config.name, value, "WARNING",
                                           ErrorMessage(config), TRUE)),
            !.has_warnings = TRUE]
    ELSE [acc EXCEPT
            !.items = Append(@, ConfigItem(config.name, value, "VALID",
                                           ValidMessage(config), TRUE))]


\* Lines 136-152: a present required value, ok the outcome of its validator
RequiredChecked(acc, config, value, ok) ==
    IF ok = "raise"
    THEN [acc EXCEPT !.raised = TRUE]
    ELSE IF ok = "false"
    THEN [acc EXCEPT
            !.items = Append(@, ConfigItem(config.name, value, "INVALID",
                                           ErrorMessage(config), TRUE)),
            !.has_errors = TRUE]
    ELSE [acc EXCEPT
            !.items = Append(@, ConfigItem(config.name, value, "VALID",
                                           ValidMessage(config), TRUE))]

\* Variant: "if not value" instead of "if value is None"
RequiredItemFalsy(acc, config, value) ==
    IF ~Truthy(value)
    THEN [acc EXCEPT
            !.items = Append(@, ConfigItem(config.name, None, "MISSING",
                                           MissingMessage(config), TRUE)),
            !.has_errors = TRUE]
    ELSE RequiredChecked(acc, config, value, CallValidator(config, value[1]))

\* Lines 127-152: the item of a required entry whose os.getenv gave value
RequiredItem(acc, config, value) ==
    IF IsNone(value)
    THEN [acc EXCEPT
            !.items = Append(@, ConfigItem(config.name, None, "MISSING",
                                           MissingMessage(config), TRUE)),
            !.has_errors = TRUE]
    ELSE RequiredChecked(acc, config, value, CallValidator(config, value[1]))

\* Body of the loop over REQUIRED_VARS, lines 125-152
RequiredStep(acc, config, e) == RequiredItem(acc, config, Getenv(e, config.name))

\* Variant: an absent optional entry without default adds no item
OptionalAbsentSkipping(acc, config, default_value) ==
    IF Truthy(default_value)
    THEN [acc EXCEPT
            !.items = Append(@, ConfigItem(config.name, default_value, "WARNING",
                                           DefaultMessage(default_value[1]), FALSE)),
            !.has_warnings = TRUE]
    ELSE [acc EXCEPT !.has_warnings = TRUE]

\* Variant: an absent optional entry without default is reported like an absent
\* required one
OptionalAbsentAsMissing(acc, config, default_value) ==
    IF Truthy(default_value)
    THEN [acc EXCEPT
            !.items = Append(@, ConfigItem(config.name, default_value, "WARNING",
                                           DefaultMessage(default_value[1]), FALSE)),
            !.has_warnings = TRUE]
    ELSE [acc EXCEPT
            !.items = Append(@, ConfigItem(config.name, None, "MISSING",
                                           MissingMessage(config), FALSE)),
            !.has_errors = TRUE]

\* Variant: the default is named in the message but not carried by the item
OptionalAbsentNoValue(acc, config, default_value) ==
    IF Truthy(default_value)
    THEN [acc EXCEPT
            !.items = Append(@, ConfigItem(config.name, None, "WARNING",
                                           DefaultMessage(default_value[1]), FALSE)),
            !.has_warnings = TRUE]
    ELSE [acc EXCEPT
            !.items = Append(@, ConfigItem(config.name, None, "WARNING",
                                           UnsetMessage(config), FALSE)),
            !.has_warnings = TRUE]


\* Lines 159-177: an absent optional value, default_value = config.get("default")
OptionalAbsent(acc, config, default_value) ==
    IF Truthy(default_value)
    THEN [acc EXCEPT
            !.items = Append(@, ConfigItem(config.name, default_value, "WARNING",
                                           DefaultMessage(default_value[1]), FALSE)),
            !.has_warnings = TRUE]
    ELSE [acc EXCEPT
            !.items = Append(@, ConfigItem(config.name, None, "WARNING",
                                           UnsetMessage(config), FALSE)),
            !.has_warnings = TRUE]

\* Variant: an invalid optional value sets has_errors, as a required one does
OptionalCheckedFatal(acc, config, value, ok) ==
    IF ok = "raise"
    THEN [acc EXCEPT !.raised = TRUE]
    ELSE IF ok = "false"
    THEN [acc EXCEPT
            !.items = Append(@, ConfigItem(config.name, value, "INVALID",
                                           ErrorMessage(config), FALSE)),
            !.has_errors = TRUE]
    ELSE [acc EXCEPT
            !.items = Append(@, ConfigItem(config.name, value, "VALID",
                                           ValidMessage(config), FALSE))]

\* Lines 178-194: a present optional value, ok the outcome of its validator
OptionalChecked(acc, config, value, ok) ==
    IF ok = "raise"
    THEN [acc EXCEPT !.raised = TRUE]
    ELSE IF ok = "false"
    THEN [acc EXCEPT
            !.items = Append(@, ConfigItem(config.name, value, "INVALID",
                                           ErrorMessage(config), FALSE)),
            !.has_warnings = TRUE]
    ELSE [acc EXCEPT
            !.items = Append(@, ConfigItem(config.name, value, "VALID",
                                           ValidMessage(config), FALSE))]

\* Variant: "if not value" instead of "if value is None" in the optional loop
OptionalItemFalsy(acc, config, value) ==
    IF ~Truthy(value)
    THEN OptionalAbsent(acc, config, config.default)
    ELSE OptionalChecked(acc, config, value, CallValidator(config, value[1]))


\* Lines 158-194: the item of an optional entry whose os.getenv gave value
OptionalItem(acc, config, value) ==
    IF IsNone(value)
    THEN OptionalAbsent(acc, config, config.default)
    ELSE OptionalChecked(acc, config, value, CallValidator(config, value[1]))

\* Body of the loop over OPTIONAL_VARS, lines 156-194
OptionalStep(acc, config, e) == OptionalItem(acc, config, Getenv(e, config.name))

\* for var_name, config in self.REQUIRED_VARS.items(); an exception ends the call
RECURSIVE RequiredLoop(_, _, _)
RequiredLoop(acc, i, e) ==
    IF acc.raised \/ i > Len(REQUIRED_VARS) THEN acc
    ELSE RequiredLoop(RequiredStep(acc, REQUIRED_VARS[i], e), i + 1, e)

\* for var_name, config in self.OPTIONAL_VARS.items()
RECURSIVE OptionalLoop(_, _, _)
OptionalLoop(acc, i, e) ==
    IF acc.raised \/ i > Len(OPTIONAL_VARS) THEN acc
    ELSE OptionalLoop(OptionalStep(acc, OPTIONAL_VARS[i], e), i + 1, e)

SummaryInvalid == "validation failed: a required variable is missing or invalid"

SummaryWarning == "configuration basically correct, but there are warnings"

SummaryValid == "all configuration items passed validation"

\* Variant: the two tests of lines 197 and 200 in the other order
AggregateWarningFirst(has_errors, has_warnings) ==
    IF has_warnings
    THEN [overall_status |-> "WARNING", summary |-> SummaryWarning]
    ELSE IF has_errors
    THEN [overall_status |-> "INVALID", summary |-> SummaryInvalid]
    ELSE [overall_status |-> "VALID", summary |-> SummaryValid]

\* Variant: only has_errors is looked at
AggregateErrorsOnly(has_errors, has_warnings) ==
    IF has_errors
    THEN [overall_status |-> "INVALID", summary |-> SummaryInvalid]
    ELSE [overall_status |-> "VALID", summary |-> SummaryValid]


\* Lines 196-205: overall status and summary from the two flags
Aggregate(has_errors, has_warnings) ==
    IF has_errors
    THEN [overall_status |-> "INVALID", summary |-> SummaryInvalid]
    ELSE IF has_warnings
    THEN [overall_status |-> "WARNING", summary |-> SummaryWarning]
    ELSE [overall_status |-> "VALID", summary |-> SummaryValid]

\* Variant: the summary is the sentence the report was initialised with
ReportOfInitialSummary(items, agg) == ConfigReport(items, agg.overall_status, SummaryValid)


\* Lines 207-211: return ConfigReport(items, overall_status, summary)
ReportOf(items, agg) == ConfigReport(items, agg.overall_status, agg.summary)

\* What the call gives once both loops have ended in acc
Outcome(acc) ==
    IF acc.raised THEN InternalError
    ELSE ReportOf(acc.items, Aggregate(acc.has_errors, acc.has_warnings))

\* Variant: the loop over OPTIONAL_VARS runs before the loop over REQUIRED_VARS
ValidateOptionalFirst(e) ==
    Outcome(RequiredLoop(OptionalLoop(InitialState, 1, e), 1, e))


\* EnvironmentManager.validate_environment_variables on environment e
ValidateEnvironmentVariables(e) ==
    Outcome(OptionalLoop(RequiredLoop(InitialState, 1, e), 1, e))

----------------------------------------------------------------------------
(* env_manager.py: accessors, defaults, structured and printed report *)

BaseUrlFrom(railway_url) ==
    IF Truthy(railway_url) THEN railway_url[1] ELSE DEFAULT_API_BASE_URL

\* EnvironmentManager.get_api_base_url
GetApiBaseUrl(e) == BaseUrlFrom(Getenv(e, "RAILWAY_STATIC_URL"))

\* Variant: os.getenv("CORS_ORIGINS") or the default, so that an empty value
\* falls back to the default origin too
OriginsRawOrDefault(v) == IF Truthy(v) THEN v[1] ELSE DEFAULT_CORS_ORIGINS


\* os.getenv("CORS_ORIGINS", "http://localhost:5173")
OriginsRaw(v) == IF IsNone(v) THEN DEFAULT_CORS_ORIGINS ELSE v[1]

\* EnvironmentManager.get_cors_origins
GetCorsOrigins(e) == StripNonEmpty(Split(OriginsRaw(Getenv(e, "CORS_ORIGINS"))))

\* The defaults dict of setup_environment_defaults
SetupDefaults ==
    << [key |-> "SECRET_KEY", default_value |-> DEFAULT_SECRET_KEY],
       [key |-> "CORS_ORIGINS", default_value |-> DEFAULT_CORS_ORIGINS],
       [key |-> "DATABASE_URL", default_value |-> DEFAULT_DATABASE_URL] >>

\* Variant: a default is written only when the variable is absent
SetDefaultIfAbsent(e, d) ==
    IF IsNone(Getenv(e, d.key)) THEN [e EXCEPT ![d.key] = Some(d.default_value)] ELSE e


\* if not os.getenv(key): os.environ[key] = default_value
SetDefault(e, d) ==
    IF ~Truthy(Getenv(e, d.key)) THEN [e EXCEPT ![d.key] = Some(d.default_value)] ELSE e

RECURSIVE SetupLoop(_, _)
SetupLoop(e, i) ==
    IF i > Len(SetupDefaults) THEN e
    ELSE SetupLoop(SetDefault(e, SetupDefaults[i]), i + 1)

\* EnvironmentManager.setup_environment_defaults: the environment it leaves
SetupEnvironmentDefaults(e) == SetupLoop(e, 1)

\* Variant: the key "value" is left out when the item has no value
ItemToDictSparse(item) ==
    IF IsNone(item.value)
    THEN [ name |-> item.name, status |-> StatusValue(item.status),
           message |-> item.message, required |-> item.required ]
    ELSE [ name |-> item.name, value |-> item.value, status |-> StatusValue(item.status),
           message |-> item.message, required |-> item.required ]

\* One entry of ConfigReport.to_dict()["items"]
ItemToDict(item) ==
    [ name |-> item.name, value |-> item.value, status |-> StatusValue(item.status),
      message |-> item.message, required |-> item.required ]

\* ConfigReport.to_dict
ToDict(r) ==
    [ items |-> [i \in 1..Len(r.items) |-> ItemToDict(r.items[i])],
      overall_status |-> StatusValue(r.overall_status),
      summary |-> r.summary ]

(* json.dumps: the JSON document as a tree.  An object is the sequence of its
   members in the dict's key order; None becomes null, a str a string, a bool
   a boolean, a list an array.  Indentation and escaping are not modelled. *)
JNull == [json |-> "null"]

JString(s) == [json |-> "string", str |-> s]

JBool(b) == [json |-> "boolean", bool |-> b]

JArray(elems) == [json |-> "array", elems |-> elems]

JObject(members) == [json |-> "object", members |-> members]

ItemKeyOrder == <<"name", "value", "status", "message", "required">>

\* Variant: the value is rendered with str(), so None becomes the text "None"
ItemMemberStringly(entry, k) ==
    [ key |-> k,
      val |-> CASE k = "value" ->
                     IF IsNone(entry[k]) THEN JString(<<"N", "o", "n", "e">>)
                     ELSE JString(entry[k][1])
                [] k = "required" -> JBool(entry[k])
                [] OTHER -> JString(entry[k]) ]


ItemMember(entry, k) ==
    [ key |-> k,
      val |-> CASE k = "value" ->
                     IF IsNone(entry[k]) THEN JNull ELSE JString(entry[k][1])
                [] k = "required" -> JBool(entry[k])
                [] OTHER -> JString(entry[k]) ]

ItemMembers(entry, keys) == [i \in 1..Len(keys) |-> ItemMember(entry, keys[i])]

ItemJson(entry) ==
    JObject(ItemMembers(entry, SelectSeq(ItemKeyOrder, LAMBDA k : k \in DOMAIN entry)))

\* json.dumps(report.to_dict(), ensure_ascii=False, indent=2)
JsonDumps(d) ==
    JObject(<< [key |-> "items",
                val |-> JArray([i \in 1..Len(d.items) |-> ItemJson(d.items[i])])],
               [key |-> "overall_status", val |-> JString(d.overall_status)],
               [key |-> "summary", val |-> JString(d.summary)] >>)

JsonOf(r) == IF IsReport(r) THEN JsonDumps(ToDict(r)) ELSE InternalError

\* EnvironmentManager.generate_config_report_json
GenerateConfigReportJson(e) == JsonOf(ValidateEnvironmentVariables(e))

(* json.loads: the Python value a JSON document denotes.  An object becomes a
   dict, where the last member with a key wins; null becomes None, a string a
   str (the Optional[str] under "value" as Some), a boolean a bool. *)
MemberValue(m) ==
    CASE m.val.json = "null" -> None
      [] m.val.json = "boolean" -> m.val.bool
      [] m.val.json = "string" ->
             IF m.key = "value" THEN Some(m.val.str) ELSE m.val.str

LastWithKey(members, k) ==
    members[CHOOSE i \in 1..Len(members) :
                /\ members[i].key = k
                /\ \A j \in (i + 1)..Len(members) : members[j].key # k]

LoadsObject(members) ==
    [k \in { members[i].key : i \in 1..Len(members) } |->
        MemberValue(LastWithKey(members, k))]

LoadsMember(m) ==
    IF m.val.json = "array"
    THEN [i \in 1..Len(m.val.elems) |-> LoadsObject(m.val.elems[i].members)]
    ELSE MemberValue(m)

\* json.loads(json_report)
JsonLoads(doc) ==
    [k \in { doc.members[i].key : i \in 1..Len(doc.members) } |->
        LoadsMember(LastWithKey(doc.members, k))]

\* Variant: the groups follow the order in which ConfigStatus defines its members
DisplayOrderOfEnum == <<"VALID", "MISSING", "INVALID", "WARNING">>


DisplayOrder == <<"INVALID", "MISSING", "WARNING", "VALID">>

ItemsWithStatus(items, status) == SelectSeq(items, LAMBDA it : it.status = status)

\* print(f"  {required_mark} {item.name}: {item.message}")
ItemLine(item) ==
    [ line |-> "item",
      required_mark |-> IF item.required THEN "[required]" ELSE "[optional]",
      name |-> item.name, message |-> item.message ]

\* Lines 260-265, status_items the items of the report with this status
GroupOf(status, status_items) ==
    IF status_items = <<>> THEN <<>>
    ELSE <<[line |-> "group", status |-> status]>>
         \o [i \in 1..Len(status_items) |-> ItemLine(status_items[i])]
         \o <<[line |-> "blank"]>>

\* One pass of the loop over the display order, lines 259-265
GroupLines(items, status) == GroupOf(status, ItemsWithStatus(items, status))

RECURSIVE AllGroupLines(_, _)
AllGroupLines(items, i) ==
    IF i > Len(DisplayOrder) THEN <<>>
    ELSE GroupLines(items, DisplayOrder[i]) \o AllGroupLines(items, i + 1)

\* Lines 250-265 for report r; status.value.upper() is the member's name
StatusLines(r) ==
    IF ~IsReport(r) THEN InternalError
    ELSE << [line |-> "rule"], [line |-> "title"], [line |-> "rule"],
            [line |-> "overall", status |-> r.overall_status],
            [line |-> "summary", summary |-> r.summary],
            [line |-> "blank"] >>
         \o AllGroupLines(r.items, 1)

\* EnvironmentManager.print_config_status: the lines it prints
PrintConfigStatus(e) == StatusLines(ValidateEnvironmentVariables(e))

----------------------------------------------------------------------------
(* main.py: recommendations and the bodies of the diagnostics endpoints *)

\* One pass of the loop of _get_config_recommendations, lines 204-210
RecommendationFor(item) ==
    IF StatusValue(item.status) = "missing" /\ item.required
    THEN <<[text |-> "set the required environment variable", name |-> item.name]>>
    ELSE IF StatusValue(item.status) = "invalid"
    THEN <<[text |-> "fix the format of environment variable", name |-> item.name]>>
    ELSE IF StatusValue(item.status) = "warning"
    THEN <<[text |-> "consider setting the optional environment variable", name |-> item.name]>>
    ELSE <<>>

RECURSIVE RecommendationsFrom(_, _)
RecommendationsFrom(items, i) ==
    IF i > Len(items) THEN <<>>
    ELSE RecommendationFor(items[i]) \o RecommendationsFrom(items, i + 1)

\* Lines 212-215: the affirmative message when nothing was recommended
OrAffirmative(recommendations) ==
    IF recommendations = <<>>
    THEN <<[text |-> "configuration looks good", name |-> ""]>>
    ELSE recommendations

\* main._get_config_recommendations
GetConfigRecommendations(config_report) ==
    OrAffirmative(RecommendationsFrom(config_report.items, 1))

HealthOf(config_report, e) ==
    IF ~IsReport(config_report) THEN InternalError
    ELSE [ status |-> IF StatusValue(config_report.overall_status) # "invalid"
                      THEN "healthy" ELSE "unhealthy",
           timestamp |-> "now",
           service |-> "AI recipe API",
           version |-> "1.0.0",
           configuration |-> [ status |-> StatusValue(config_report.overall_status),
                               summary |-> config_report.summary ],
           api_base_url |-> GetApiBaseUrl(e),
           cors_origins |-> GetCorsOrigins(e) ]

\* Body returned by GET /health
HealthBody(e) == HealthOf(ValidateEnvironmentVariables(e), e)

DictOf(r) == IF IsReport(r) THEN ToDict(r) ELSE InternalError

\* env_manager.get_config_status, the body returned by GET /config/status
GetConfigStatus(e) == DictOf(ValidateEnvironmentVariables(e))

ValidationOf(config_report) ==
    IF ~IsReport(config_report) THEN InternalError
    ELSE [ valid |-> StatusValue(config_report.overall_status) # "invalid",
           report |-> ToDict(config_report),
           recommendations |-> GetConfigRecommendations(config_report) ]

\* Body returned by GET /config/validate
ValidateBody(e) == ValidationOf(ValidateEnvironmentVariables(e))

\* The response FastAPI sends: 200 with the body, 500 when the handler raised
HttpResponse(endpoint, body) ==
    [ kind |-> "http", endpoint |-> endpoint,
      status_code |-> IF body = InternalError THEN 500 ELSE 200,
      body |-> body ]

----------------------------------------------------------------------------
(* validate_config.py *)

\* One pass of the loop of print_recommendations, lines 144-147
CliRecommendationFor(item) ==
    IF item.status = "MISSING" /\ item.required
    THEN <<[text |-> "set the required environment variable: export", name |-> item.name]>>
    ELSE IF item.status = "INVALID"
    THEN <<[text |-> "fix the format of environment variable", name |-> item.name]>>
    ELSE <<>>

RECURSIVE CliRecommendationsFrom(_, _)
CliRecommendationsFrom(items, i) ==
    IF i > Len(items) THEN <<>>
    ELSE CliRecommendationFor(items[i]) \o CliRecommendationsFrom(items, i + 1)

\* Lines 149-152
RecommendationLines(recommendations) ==
    IF recommendations # <<>>
    THEN <<[line |-> "recommendations header"]>>
         \o [i \in 1..Len(recommendations) |->
               [line |-> "recommendation", number |-> i, rec |-> recommendations[i]]]
    ELSE <<>>

RailwayAdvice ==
    << [line |-> "railway advice header"], [line |-> "railway advice: configure variables"],
       [line |-> "railway advice: set front and back end URLs"],
       [line |-> "railway advice: check the domain"] >>

\* validate_config.print_recommendations: the lines it prints
PrintRecommendations(r, e) ==
    RecommendationLines(CliRecommendationsFrom(r.items, 1))
    \o (IF Truthy(Getenv(e, "RAILWAY_ENVIRONMENT")) THEN RailwayAdvice ELSE <<>>)

\* Lines 87-92
FixLines(fixes_applied) ==
    <<[line |-> "fix header"]>>
    \o (IF fixes_applied # <<>>
        THEN <<[line |-> "fixes applied", count |-> Len(fixes_applied)]>>
             \o [i \in 1..Len(fixes_applied) |-> [line |-> "fix", fix |-> fixes_applied[i]]]
        ELSE <<[line |-> "no common problem found"]>>)

\* validate_config.fix_common_issues: the lines it prints (it changes nothing)
FixCommonIssues(e) ==
    FixLines(
        (IF ~Truthy(Getenv(e, "SECRET_KEY"))
         THEN <<"generated a new SECRET_KEY suggestion">> ELSE <<>>)
        \o (IF ~Truthy(Getenv(e, "CORS_ORIGINS"))
            THEN <<"provided a CORS_ORIGINS suggestion">> ELSE <<>>)
        \o (IF Truthy(Getenv(e, "RAILWAY_ENVIRONMENT"))
               /\ ~Truthy(Getenv(e, "RAILWAY_STATIC_URL"))
            THEN <<"detected a Railway configuration problem">> ELSE <<>>))

\* What requests.options can bring back in check_cors_configuration
NetOutcomes == {"unreachable", "allow origin *", "allow origin other"}

\* Lines 111-132, configured_origins = manager.get_cors_origins()
CorsLines(net, configured_origins) ==
    << [line |-> "cors check"], [line |-> "cors headers", headers |-> net],
       [line |-> "configured origins", origins |-> configured_origins],
       IF net = "allow origin *"
          \/ \E i \in 1..Len(configured_origins) :
                configured_origins[i] = DEFAULT_CORS_ORIGINS
       THEN [line |-> "cors looks right"]
       ELSE [line |-> "cors may have a problem"] >>

\* validate_config.check_cors_configuration: the lines it prints
CheckCorsConfiguration(net, e) ==
    IF net = "unreachable"
    THEN <<[line |-> "cors check"], [line |-> "cannot connect"]>>
    ELSE CorsLines(net, GetCorsOrigins(e))

CliArgs == [json : BOOLEAN, fix : BOOLEAN, check_cors : BOOLEAN, quiet : BOOLEAN]

\* Variant: a WARNING report fails the run too
CliExitCodeStrict(overall_status) == IF overall_status # "VALID" THEN 1 ELSE 0

\* The process exit code after lines 50-55
CliExitCode(overall_status) == IF overall_status = "INVALID" THEN 1 ELSE 0

\* Lines 43-47: what the run shows of the report
Shown(args, r, e) ==
    IF args.json THEN <<[line |-> "json", doc |-> GenerateConfigReportJson(e)]>>
    ELSE IF ~args.quiet THEN PrintConfigStatus(e) \o PrintRecommendations(r, e)
    ELSE <<>>

\* Lines 52-55: the closing line
Verdict(args, r) ==
    IF r.overall_status = "INVALID" THEN <<>>
    ELSE IF r.overall_status = "WARNING" /\ ~args.quiet
    THEN <<[line |-> "warnings exist, can continue"]>>
    ELSE IF ~args.quiet THEN <<[line |-> "validation passed"]>>
    ELSE <<>>

CliResult(args, exit_code, stdout, r) ==
    [ kind |-> "cli", args |-> args, exit_code |-> exit_code, stdout |-> stdout,
      report |-> r ]

\* Lines 41-55, r the outcome of manager.validate_environment_variables()
CliValidated(args, e, fixed, r) ==
    IF ~IsReport(r)
    THEN CliResult(args, 1, fixed \o <<[line |-> "traceback"]>>, None)
    ELSE CliResult(args, CliExitCode(r.overall_status),
                   fixed \o Shown(args, r, e) \o Verdict(args, r), Some(r))

\* Lines 36-55, fixed the lines --fix has printed
CliAfterFix(args, net, e, fixed) ==
    IF args.check_cors
    THEN CliResult(args, 0, fixed \o CheckCorsConfiguration(net, e), None)
    ELSE CliValidated(args, e, fixed, ValidateEnvironmentVariables(e))

\* validate_config.main run with args in environment e; net is the network's
\* answer to --check-cors.  The run as observed: exit code, output, local report.
CliMain(args, net, e) ==
    CliAfterFix(args, net, e, IF args.fix THEN FixCommonIssues(e) ELSE <<>>)

----------------------------------------------------------------------------
(* The environments a process is started with *)

NumManagers == 2

\* EnvironmentManager instances: 1 is the module-level env_manager
Managers == 1..NumManagers

ShortKey == <<"s","h","o","r","t">>

TwoOrigins ==
    <<"h","t","t","p",":","/","/","l","o","c","a","l","h","o","s","t",":","5","1","7","3",
      ","," ","h","t","t","p","s",":","/","/","e","x","a","m","p","l","e",".","c","o","m">>

InvalidUrl == <<"i","n","v","a","l","i","d","-","u","r","l">>

MysqlUrl == <<"m","y","s","q","l",":","/","/","h","/","d">>

BadDbUrl == <<"d","b",".","s","q","l","i","t","e">>

RailwayUrl == <<"h","t","t","p","s",":","/","/","x",".","e","x","a","m","p","l","e","/">>

PlainHttpUrl == <<"h","t","t","p",":","/","/","x",".","e","x","a","m","p","l","e">>

ValidKey == Rep("a", MinSecretKeyLen)

SecretKeyValues == {None, Some(<<>>), Some(ShortKey), Some(ValidKey)}

CorsOriginsValues == {None, Some(<<>>), Some(<<"*">>), Some(TwoOrigins), Some(InvalidUrl)}

DatabaseUrlValues == {None, Some(<<>>), Some(MysqlUrl), Some(BadDbUrl)}

RailwayStaticUrlValues == {None, Some(<<>>), Some(RailwayUrl), Some(PlainHttpUrl)}

\* RAILWAY_ENVIRONMENT is read only for the advice texts of the command line
\* tool; the deployments explored leave it unset
RailwayEnvironmentValues == {None}

Environments ==
    { [ SECRET_KEY |-> a, CORS_ORIGINS |-> b, DATABASE_URL |-> c,
        RAILWAY_STATIC_URL |-> d, RAILWAY_ENVIRONMENT |-> f ] :
      a \in SecretKeyValues, b \in CorsOriginsValues, c \in DatabaseUrlValues,
      d \in RailwayStaticUrlValues, f \in RailwayEnvironmentValues }

\* The environments the runs of the command line tool are explored in
CliEnvironments ==
    { e \in Environments :
        /\ e.CORS_ORIGINS \in {None, Some(<<"*">>), Some(TwoOrigins), Some(InvalidUrl)}
        /\ e.DATABASE_URL \in {None, Some(BadDbUrl), Some(MysqlUrl)}
        /\ e.RAILWAY_STATIC_URL \in {None, Some(RailwayUrl)} }

\* The environments a defective schema is explored in
FaultEnvironments ==
    { e \in Environments :
        /\ e.SECRET_KEY \in {None, Some(ShortKey), Some(ValidKey)}
        /\ e.CORS_ORIGINS \in {None, Some(<<"*">>)}
        /\ e.DATABASE_URL \in {None, Some(BadDbUrl)}
        /\ e.RAILWAY_STATIC_URL \in {None, Some(RailwayUrl)} }

MaxKeyLen == 34

(* The elements a CORS_ORIGINS value is written from: raw is the element as
   written between the commas, text the element without the whitespace around
   it, origin whether text is * or scheme://host[:port] with scheme http or
   https, host of letters, digits, "." and "-", port of digits. *)
OriginElements ==
    { [raw |-> <<"*">>, text |-> <<"*">>, origin |-> TRUE],
      [raw |-> <<" ","h","t","t","p",":","/","/","a","\t">>,
       text |-> <<"h","t","t","p",":","/","/","a">>, origin |-> TRUE],
      [raw |-> <<"h","t","t","p","s",":","/","/","a","-","1",".","b",":","8","0">>,
       text |-> <<"h","t","t","p","s",":","/","/","a","-","1",".","b",":","8","0">>,
       origin |-> TRUE],
      [raw |-> <<"f","t","p",":","/","/","a">>,
       text |-> <<"f","t","p",":","/","/","a">>, origin |-> FALSE],
      [raw |-> <<"a",".","b",":","8","0">>,
       text |-> <<"a",".","b",":","8","0">>, origin |-> FALSE],
      [raw |-> <<"h","t","t","p",":","/","/">>,
       text |-> <<"h","t","t","p",":","/","/">>, origin |-> FALSE],
      [raw |-> <<"h","t","t","p",":","/","/","a",":">>,
       text |-> <<"h","t","t","p",":","/","/","a",":">>, origin |-> FALSE],
      [raw |-> <<"h","t","t","p",":","/","/","a","/","b">>,
       text |-> <<"h","t","t","p",":","/","/","a","/","b">>, origin |-> FALSE],
      [raw |-> <<"h","t","t","p",":","/","/","a"," ","b">>,
       text |-> <<"h","t","t","p",":","/","/","a"," ","b">>, origin |-> FALSE],
      [raw |-> <<>>, text |-> <<>>, origin |-> FALSE],
      [raw |-> <<" ">>, text |-> <<>>, origin |-> FALSE] }

\* CORS_ORIGINS values of one or two elements
OriginLists == UNION { [1..n -> OriginElements] : n \in 1..2 }

\* ",".join of the elements as written
JoinOrigins(elements) ==
    IF Len(elements) = 1 THEN elements[1].raw
    ELSE elements[1].raw \o <<",">> \o elements[2].raw

\* Environments for the value predicates: SECRET_KEY of every length up to
\* MaxKeyLen, CORS_ORIGINS written from every list of elements
ValueEnvironments ==
    { [ SECRET_KEY |-> a, CORS_ORIGINS |-> Some(<<"*">>), DATABASE_URL |-> None,
        RAILWAY_STATIC_URL |-> None, RAILWAY_ENVIRONMENT |-> None ] :
      a \in { Some(Rep("a", n)) : n \in 0..MaxKeyLen } }
    \cup
    { [ SECRET_KEY |-> Some(ValidKey), CORS_ORIGINS |-> b, DATABASE_URL |-> None,
        RAILWAY_STATIC_URL |-> None, RAILWAY_ENVIRONMENT |-> None ] :
      b \in {None} \cup { Some(JoinOrigins(c)) : c \in OriginLists } }


NoCall == [ called |-> FALSE ]

Nothing == [ kind |-> "none" ]

----------------------------------------------------------------------------
(* Operations *)

NumCallers == 2

\* Threads serving requests: each runs validate_environment_variables on the
\* shared env_manager
Callers == 1..NumCallers


\* A fresh process of each kind, started with an environment of envs by a
\* deployment whose schema has the defective entries of one set of defects
InitWith(envs, defects) ==
    /\ launchEnv \in envs
    /\ env = launchEnv
    /\ schemaDefect \in defects
    /\ started = FALSE
    /\ startupReport = NoCall
    /\ appOrigins = NoCall
    /\ report = [m \in Managers |-> NoCall]
    /\ last = Nothing
    /\ frames = [c \in Callers |-> [at |-> "idle", i |-> 0, result |-> NoCall]]
    /\ locals = [c \in Callers |-> InitialState]

\* The schema as shipped: no validator raises
Init == InitWith(Environments, {{}})

\* What a library call leaves behind: the environment read and the outcome
CallRecord(e, result) == [ called |-> TRUE, environ |-> e, result |-> result ]

\* Variant: the instance keeps the first report it computed and returns it
\* from then on
ValidateMemoized(m) ==
    /\ report' = [report EXCEPT ![m] =
                     CallRecord(env, IF report[m].called THEN report[m].result
                                     ELSE ValidateEnvironmentVariables(env))]
    /\ UNCHANGED <<launchEnv, env, schemaDefect, started, startupReport, appOrigins, last, frames, locals>>


\* A library call manager.validate_environment_variables() in the service process
Validate(m) ==
    /\ report' = [report EXCEPT ![m] = CallRecord(env, ValidateEnvironmentVariables(env))]
    /\ UNCHANGED <<launchEnv, env, schemaDefect, started, startupReport, appOrigins, last, frames, locals>>

\* main.py lines 20-22: the warning and the status printed for an invalid report
StartupOutput(config_report, e) ==
    IF StatusValue(config_report.overall_status) = "invalid"
    THEN <<[line |-> "configuration has problems"]>> \o PrintConfigStatus(e)
    ELSE <<>>

\* main.py lines 25-27: the CORS middleware's settings
Middleware(origins) ==
    [ origins |-> origins, allow_credentials |-> origins # << <<"*">> >> ]

\* main.py lines 17-27 in environment e, config_report = validate_environment()
StartupValidated(e, config_report) ==
    /\ startupReport' = config_report
    /\ IF IsReport(config_report)
       THEN /\ started' = TRUE
            /\ appOrigins' = Middleware(GetCorsOrigins(e))
            /\ last' = [kind |-> "startup", stdout |-> StartupOutput(config_report, e)]
       ELSE /\ started' = FALSE
            /\ appOrigins' = appOrigins
            /\ last' = [kind |-> "startup", stdout |-> <<[line |-> "traceback"]>>]

\* main.py from line 17 on, e the environment setup_environment_defaults left
StartupIn(e) ==
    /\ env' = e
    /\ StartupValidated(e, ValidateEnvironmentVariables(e))

\* Variant: main.py validates without setting the defaults first
StartupUnprepared ==
    /\ ~started
    /\ StartupIn(env)
    /\ UNCHANGED <<launchEnv, schemaDefect, report, frames, locals>>


\* Loading main.py, lines 13-27: defaults, validation, warning, CORS middleware
Startup ==
    /\ ~started
    /\ StartupIn(SetupEnvironmentDefaults(env))
    /\ UNCHANGED <<launchEnv, schemaDefect, report, frames, locals>>

\* GET /health
HealthCheck ==
    /\ started
    /\ last' = HttpResponse("/health", HealthBody(env))
    /\ UNCHANGED <<launchEnv, env, schemaDefect, started, startupReport, appOrigins, report, frames, locals>>

\* GET /config/status
GetConfigurationStatus ==
    /\ started
    /\ last' = HttpResponse("/config/status", GetConfigStatus(env))
    /\ UNCHANGED <<launchEnv, env, schemaDefect, started, startupReport, appOrigins, report, frames, locals>>

\* GET /config/validate
ValidateConfiguration ==
    /\ started
    /\ last' = HttpResponse("/config/validate", ValidateBody(env))
    /\ UNCHANGED <<launchEnv, env, schemaDefect, started, startupReport, appOrigins, report, frames, locals>>

\* python validate_config.py [--json] [--fix] [--check-cors URL] [--quiet], a
\* process of its own, started with the deployment's environment
RunCli(args, net) ==
    /\ last' = CliMain(args, net, launchEnv)
    /\ UNCHANGED <<launchEnv, env, schemaDefect, started, startupReport, appOrigins, report, frames, locals>>

\* Variant: the accessors answer from the values read when the module was loaded
AccessorsAtImport ==
    /\ last' = [ kind |-> "accessors", api_base_url |-> GetApiBaseUrl(launchEnv),
                 cors_origins |-> GetCorsOrigins(launchEnv) ]
    /\ UNCHANGED <<launchEnv, env, schemaDefect, started, startupReport, appOrigins, report, frames, locals>>


\* Library calls manager.get_api_base_url() and manager.get_cors_origins()
Accessors ==
    /\ last' = [ kind |-> "accessors", api_base_url |-> GetApiBaseUrl(env),
                 cors_origins |-> GetCorsOrigins(env) ]
    /\ UNCHANGED <<launchEnv, env, schemaDefect, started, startupReport, appOrigins, report, frames, locals>>


\* Variant: items, has_errors and has_warnings are kept on the shared
\* env_manager instance, so every thread works on the same ones
LocalsOnInstance(c) == 1

\* The frame holding the local variables of the call thread c is in: its own
Locals(c) == c

\* Lines 119-121: thread c enters validate_environment_variables
Enter(c) ==
    /\ frames[c].at \in {"idle", "done"}
    /\ frames' = [frames EXCEPT ![c] = [at |-> "required", i |-> 1, result |-> NoCall]]
    /\ locals' = [locals EXCEPT ![Locals(c)] = InitialState]
    /\ UNCHANGED <<launchEnv, env, schemaDefect, started, startupReport, appOrigins,
                   report, last>>

\* One pass of the loop of lines 124-152 or of lines 155-194 by thread c; an
\* exception leaves both loops
Step(c) ==
    /\ frames[c].at \in {"required", "optional"}
    /\ locals' = [locals EXCEPT
                    ![Locals(c)] =
                        IF frames[c].at = "required"
                        THEN RequiredStep(@, REQUIRED_VARS[frames[c].i], env)
                        ELSE OptionalStep(@, OPTIONAL_VARS[frames[c].i], env)]
    /\ frames' = [frames EXCEPT
                    ![c] =
                        IF locals'[Locals(c)].raised
                        THEN [at |-> "return", i |-> 0, result |-> NoCall]
                        ELSE IF @.at = "required" /\ @.i < Len(REQUIRED_VARS)
                        THEN [at |-> "required", i |-> @.i + 1, result |-> NoCall]
                        ELSE IF @.at = "required"
                        THEN [at |-> "optional", i |-> 1, result |-> NoCall]
                        ELSE IF @.i < Len(OPTIONAL_VARS)
                        THEN [at |-> "optional", i |-> @.i + 1, result |-> NoCall]
                        ELSE [at |-> "return", i |-> 0, result |-> NoCall]]
    /\ UNCHANGED <<launchEnv, env, schemaDefect, started, startupReport, appOrigins,
                   report, last>>

\* Lines 196-211: thread c aggregates and returns its report
Return(c) ==
    /\ frames[c].at = "return"
    /\ frames' = [frames EXCEPT
                    ![c] = [at |-> "done", i |-> 0, result |-> Outcome(locals[Locals(c)])]]
    /\ UNCHANGED <<launchEnv, env, schemaDefect, started, startupReport, appOrigins,
                   report, last, locals>>


\* A library call env_manager.setup_environment_defaults() by another thread
ApplyDefaults ==
    /\ env' = SetupEnvironmentDefaults(env)
    /\ UNCHANGED <<launchEnv, schemaDefect, started, startupReport, appOrigins, report,
                   last, frames, locals>>


\* An update of the environment from outside the engine: os.environ[name] =
\* value, or del os.environ[name] when value is None
SetEnv(name, value) ==
    /\ env[name] # value
    /\ env' = [env EXCEPT ![name] = value]
    /\ UNCHANGED <<launchEnv, schemaDefect, started, startupReport, appOrigins, report,
                   last, frames, locals>>


\* The service process: library calls, module start-up and the endpoints
Next ==
    \/ \E m \in Managers : Validate(m)
    \/ Accessors
    \/ Startup
    \/ HealthCheck
    \/ GetConfigurationStatus
    \/ ValidateConfiguration

Spec == Init /\ [][Next]_vars

\* The deployment: the service (start-up, endpoints) and runs of the command
\* line tool; the network is consulted only under --check-cors
NextCli ==
    \/ Startup
    \/ HealthCheck
    \/ GetConfigurationStatus
    \/ ValidateConfiguration
    \/ \E args \in CliArgs :
         \E net \in IF args.check_cors THEN NetOutcomes ELSE {"not asked"} :
            RunCli(args, net)

InitCli == InitWith(CliEnvironments, {{}})

SpecCli == InitCli /\ [][NextCli]_vars

\* A schema with defective validators: every subset of the entries may raise
InitFault == InitWith(FaultEnvironments, SUBSET VarNames)

SpecFault == InitFault /\ [][Next]_vars

\* Requests served concurrently: the calls interleave pass by pass
NextConc == \E c \in Callers : Enter(c) \/ Step(c) \/ Return(c)

SpecConc == InitWith(FaultEnvironments, {{}}) /\ [][NextConc]_vars

\* Calls under way while another thread applies the defaults
NextAtomic == ApplyDefaults \/ \E c \in Callers : Enter(c) \/ Step(c) \/ Return(c)

SpecAtomic == InitWith(FaultEnvironments, {{}}) /\ [][NextAtomic]_vars

\* Long-lived manager instances in a process whose environment is updated
\* between the library calls
NextUpdate ==
    \/ \E m \in Managers : Validate(m)
    \/ Accessors
    \/ \E name \in VarNames :
         \E value \in (CASE name = "SECRET_KEY" -> {Some(ShortKey), Some(ValidKey)}
                        [] name = "CORS_ORIGINS" -> {Some(<<"*">>), Some(TwoOrigins)}
                        [] name = "DATABASE_URL" -> {None, Some(MysqlUrl)}
                        [] OTHER -> {None, Some(<<>>), Some(RailwayUrl)}) :
            /\ \A n \in VarNames \ {name} : env[n] = launchEnv[n]
            /\ SetEnv(name, value)

SpecUpdate ==
    /\ InitWith({ e \in Environments :
                    /\ e.SECRET_KEY = Some(ValidKey)
                    /\ e.CORS_ORIGINS = Some(<<"*">>)
                    /\ e.DATABASE_URL = None
                    /\ e.RAILWAY_STATIC_URL \in {None, Some(RailwayUrl)} }, {{}})
    /\ [][NextUpdate]_vars

\* The service process over the environments for the value predicates
SpecValues == InitWith(ValueEnvironments, {{}}) /\ [][Next]_vars

----------------------------------------------------------------------------
(* Properties of the reports *)

\* The validation calls made so far, each with the environment it read: the
\* library calls and the call of main.py line 17
Calls ==
    { report[m] : m \in { k \in Managers : report[k].called } }
    \cup (IF startupReport # NoCall THEN {CallRecord(env, startupReport)} ELSE {})

\* The calls that returned a report
Returned == { c \in Calls : IsReport(c.result) }

ItemNamed(r, name) == r.items[CHOOSE i \in 1..Len(r.items) : r.items[i].name = name]

HasItem(r, name) == \E i \in 1..Len(r.items) : r.items[i].name = name

RequiredFailure(r) ==
    \E i \in 1..Len(r.items) :
        r.items[i].required /\ r.items[i].status \in {"MISSING", "INVALID"}

OptionalConcern(r) ==
    \E i \in 1..Len(r.items) :
        ~r.items[i].required /\ r.items[i].status \in {"WARNING", "INVALID"}

\* C1: every report's overall_status is INVALID iff a required item is MISSING
\* or INVALID; otherwise WARNING iff an optional item is WARNING or INVALID;
\* otherwise VALID.
C1_Aggregation ==
    \A c \in Returned :
        c.result.overall_status =
            IF RequiredFailure(c.result) THEN "INVALID"
            ELSE IF OptionalConcern(c.result) THEN "WARNING"
            ELSE "VALID"

\* A report that is INVALID with optional concerns beside the required failure
\* and, after the start-up defaults, a report on the same process that is
\* WARNING with no required failure
C1_Witness ==
    /\ \E c \in Returned :
          /\ c.result.overall_status = "INVALID"
          /\ RequiredFailure(c.result) /\ OptionalConcern(c.result)
    /\ \E c \in Returned :
          /\ c.result.overall_status = "WARNING"
          /\ ~RequiredFailure(c.result) /\ OptionalConcern(c.result)

\* C2: the item names of every report are exactly the names of REQUIRED_VARS
\* and OPTIONAL_VARS, each once; the items flagged required are exactly the
\* REQUIRED_VARS names, the others exactly the OPTIONAL_VARS names.
C2_SchemaCompleteness ==
    \A c \in Returned :
        LET items == c.result.items
        IN  /\ { items[i].name : i \in 1..Len(items) } = RequiredNames \cup OptionalNames
            /\ \A i, j \in 1..Len(items) : items[i].name = items[j].name => i = j
            /\ { items[i].name : i \in { k \in 1..Len(items) : items[k].required } }
                  = RequiredNames
            /\ { items[i].name : i \in { k \in 1..Len(items) : ~items[k].required } }
                  = OptionalNames

\* A report on an environment in which none of the four variables is set
C2_Witness ==
    \E c \in Returned :
        /\ \A n \in VarNames : IsNone(Getenv(c.environ, n))
        /\ Len(c.result.items) = Cardinality(VarNames)

Present(e, name) == ~IsNone(Getenv(e, name))

\* C4: a required item is MISSING, with the message naming the entry's
\* description, iff the variable is absent; INVALID with the entry's error
\* message iff it is present and its validator returns false; VALID iff it is
\* present and its validator returns true.
C4_RequiredItems ==
    \A c \in Returned :
        \A k \in 1..Len(REQUIRED_VARS) :
            LET config == REQUIRED_VARS[k]
                item == ItemNamed(c.result, config.name)
                value == Getenv(c.environ, config.name)
            IN  /\ HasItem(c.result, config.name)
                /\ item.status = "MISSING" <=> IsNone(value)
                /\ item.status = "MISSING" => item.message = MissingMessage(config)
                /\ item.status = "INVALID"
                      <=> (~IsNone(value) /\ ~Validator(config.name, value[1]))
                /\ item.status = "INVALID" => item.message = ErrorMessage(config)
                /\ item.status = "VALID"
                      <=> (~IsNone(value) /\ Validator(config.name, value[1]))

\* One report with a MISSING and an INVALID required item (an empty string),
\* another with both required items VALID
C4_Witness ==
    /\ \E c \in Returned :
          /\ ItemNamed(c.result, "SECRET_KEY").status = "MISSING"
          /\ ItemNamed(c.result, "CORS_ORIGINS").status = "INVALID"
          /\ Getenv(c.environ, "CORS_ORIGINS") = Some(<<>>)
    /\ \E c \in Returned :
          \A k \in 1..Len(REQUIRED_VARS) :
              ItemNamed(c.result, REQUIRED_VARS[k].name).status = "VALID"

\* C5: an optional item is WARNING iff the variable is absent (the message
\* states the default when the entry has one, and that the variable is unset
\* when it has none); INVALID with the entry's error message iff it is present
\* and its validator returns false; VALID iff present and the validator returns
\* true; it is never MISSING.
C5_OptionalItems ==
    \A c \in Returned :
        \A k \in 1..Len(OPTIONAL_VARS) :
            LET config == OPTIONAL_VARS[k]
                item == ItemNamed(c.result, config.name)
                value == Getenv(c.environ, config.name)
            IN  /\ HasItem(c.result, config.name)
                /\ item.status = "WARNING" <=> IsNone(value)
                /\ item.status = "WARNING" =>
                      item.message = IF Truthy(config.default)
                                     THEN DefaultMessage(config.default[1])
                                     ELSE UnsetMessage(config)
                /\ item.status = "INVALID"
                      <=> (~IsNone(value) /\ ~Validator(config.name, value[1]))
                /\ item.status = "INVALID" => item.message = ErrorMessage(config)
                /\ item.status = "VALID"
                      <=> (~IsNone(value) /\ Validator(config.name, value[1]))
                /\ item.status # "MISSING"

\* A report in which both optional variables are absent, one with a default and
\* one without
C5_Witness ==
    \E c \in Returned :
        /\ IsNone(Getenv(c.environ, "DATABASE_URL"))
        /\ IsNone(Getenv(c.environ, "RAILWAY_STATIC_URL"))
        /\ ItemNamed(c.result, "DATABASE_URL").status = "WARNING"
        /\ ItemNamed(c.result, "DATABASE_URL").message
              = DefaultMessage(DEFAULT_DATABASE_URL)
        /\ ItemNamed(c.result, "RAILWAY_STATIC_URL").status = "WARNING"
        /\ ItemNamed(c.result, "RAILWAY_STATIC_URL").message
              = UnsetMessage(OPTIONAL_VARS[2])

AllRequiredValid(r) ==
    \A i \in 1..Len(r.items) : r.items[i].required => r.items[i].status = "VALID"

\* C6: when all required items are VALID the overall status is WARNING or
\* VALID, whatever the optional variables hold.
C6_OptionalNeverFatal ==
    \A c \in Returned :
        AllRequiredValid(c.result) => c.result.overall_status \in {"WARNING", "VALID"}

\* All required items VALID, both optional items INVALID, overall WARNING
C6_Witness ==
    \E c \in Returned :
        /\ AllRequiredValid(c.result)
        /\ \A i \in 1..Len(c.result.items) :
              ~c.result.items[i].required => c.result.items[i].status = "INVALID"
        /\ c.result.overall_status = "WARNING"

----------------------------------------------------------------------------
(* Properties of the consumers *)

\* Item statuses by name, and the overall status, of a report
StatusesOf(r) ==
    [ items |-> [i \in 1..Len(r.items) |->
                    <<r.items[i].name, StatusValue(r.items[i].status)>>],
      overall_status |-> StatusValue(r.overall_status) ]

\* The same, read off a to_dict() rendering
StatusesOfDict(d) ==
    [ items |-> [i \in 1..Len(d.items) |-> <<d.items[i].name, d.items[i].status>>],
      overall_status |-> d.overall_status ]

IsCliRun == last.kind = "cli"

IsResponse(endpoint) == last.kind = "http" /\ last.endpoint = endpoint

\* C7 as claimed: in one deployment, started with one environment, what the
\* endpoints serve and what the command line tool computes carry the item
\* statuses and the overall status of the report computed at service start-up.
C7_SameResultsForAllConsumers ==
    started =>
        /\ IsResponse("/health") =>
              last.body.configuration.status = StatusesOf(startupReport).overall_status
        /\ IsResponse("/config/status") =>
              StatusesOfDict(last.body) = StatusesOf(startupReport)
        /\ IsResponse("/config/validate") =>
              StatusesOfDict(last.body.report) = StatusesOf(startupReport)
        /\ (IsCliRun /\ ~IsNone(last.report)) =>
              StatusesOf(last.report[1]) = StatusesOf(startupReport)

\* C8 as claimed: every run of the tool, whatever its flags, exits 0 iff the
\* overall status of its environment is not INVALID.
C8_ExitCodeForEveryFlagCombination ==
    IsCliRun =>
        (last.exit_code = 0
            <=> ValidateEnvironmentVariables(launchEnv).overall_status # "INVALID")

\* C8: a run without --check-cors exits 0 when the overall status of its
\* environment is not INVALID and 1 when it is INVALID, for every combination
\* of --json, --quiet and --fix; a run with --check-cors validates nothing and
\* exits 0.
C8_ExitCode ==
    IsCliRun =>
        IF last.args.check_cors
        THEN last.exit_code = 0 /\ IsNone(last.report)
        ELSE /\ ~IsNone(last.report)
             /\ last.report[1] = ValidateEnvironmentVariables(launchEnv)
             /\ last.report[1].overall_status # "INVALID" => last.exit_code = 0
             /\ last.report[1].overall_status = "INVALID" => last.exit_code = 1

\* A run with --json --quiet --fix on an INVALID environment has exited 1
C8_Witness ==
    /\ IsCliRun
    /\ last.args = [json |-> TRUE, fix |-> TRUE, check_cors |-> FALSE, quiet |-> TRUE]
    /\ ValidateEnvironmentVariables(launchEnv).overall_status = "INVALID"
    /\ last.exit_code = 1

ItemStatuses(r) == { r.items[i].status : i \in 1..Len(r.items) }

\* C9: a call returns no report but the internal error exactly when the
\* validator of a variable that is present raises; every other call, whatever
\* is absent or ill-formed, returns a report whose items all carry one of the
\* four statuses, and a raising validator of an absent variable is never run.
C9_ValidatorFailurePropagates ==
    \A c \in Calls :
        IF \E n \in schemaDefect : Present(c.environ, n)
        THEN c.result = InternalError
        ELSE /\ c.result # InternalError
             /\ Len(c.result.items) = Cardinality(VarNames)
             /\ ItemStatuses(c.result) \subseteq ConfigStatus
             /\ c.result.overall_status \in ConfigStatus

\* One call has ended in the internal error; another, made while the variable
\* with the raising validator was absent, has reported it MISSING
C9_Witness ==
    /\ \E c \in Calls : c.result = InternalError
    /\ \E c \in Returned :
          \E n \in schemaDefect :
              /\ ~Present(c.environ, n)
              /\ ItemNamed(c.result, n).status = "MISSING"

StatusTags == {"valid", "invalid", "missing", "warning"}

ReportKeys == {"items", "overall_status", "summary"}

ItemKeys == {"name", "value", "status", "message", "required"}

\* A to_dict() rendering of report r with all keys and tags
DictWellFormed(d, r) ==
    /\ DOMAIN d = ReportKeys
    /\ d.overall_status \in StatusTags
    /\ Len(d.items) = Len(r.items)
    /\ \A i \in 1..Len(d.items) :
          /\ DOMAIN d.items[i] = ItemKeys
          /\ d.items[i].status \in StatusTags
          /\ d.items[i].value = r.items[i].value

Keys(obj) == [i \in 1..Len(obj.members) |-> obj.members[i].key]

Member(obj, k) == obj.members[CHOOSE i \in 1..Len(obj.members) : obj.members[i].key = k].val

\* One entry of the JSON array "items", rendering item
EntryWellFormed(entry, item) ==
    /\ Keys(entry) = ItemKeyOrder
    /\ Member(entry, "status").str \in StatusTags
    /\ Member(entry, "value") =
          IF IsNone(item.value) THEN JNull ELSE JString(item.value[1])

\* A JSON document of report r with all keys and tags
JsonWellFormed(doc, r) ==
    /\ doc.json = "object"
    /\ Keys(doc) = <<"items", "overall_status", "summary">>
    /\ Member(doc, "overall_status").json = "string"
    /\ Member(doc, "overall_status").str \in StatusTags
    /\ Member(doc, "items").json = "array"
    /\ Len(Member(doc, "items").elems) = Len(r.items)
    /\ \A i \in 1..Len(r.items) :
          EntryWellFormed(Member(doc, "items").elems[i], r.items[i])

JsonRun == IsCliRun /\ last.args.json /\ ~last.args.check_cors

\* C10: every to_dict() rendering served by /config/status and
\* /config/validate, and every JSON document printed by the tool, has the keys
\* items, overall_status and summary; every item entry has the five keys name,
\* value, status, message and required; an item without a value has None (null
\* in JSON) under the key value; every status is one of the tags valid,
\* invalid, missing, warning.
C10_RenderingComplete ==
    /\ started => DictWellFormed(ToDict(startupReport), startupReport)
    /\ IsResponse("/config/status") => DictWellFormed(last.body, startupReport)
    /\ IsResponse("/config/validate") => DictWellFormed(last.body.report, startupReport)
    /\ JsonRun => /\ Len(last.stdout) >= 1
                  /\ \E i \in 1..Len(last.stdout) :
                        /\ last.stdout[i].line = "json"
                        /\ JsonWellFormed(last.stdout[i].doc, last.report[1])

\* The tool has printed a JSON document in which a variable has the value null
C10_Witness ==
    /\ JsonRun
    /\ \E i \in 1..Len(last.stdout) :
          /\ last.stdout[i].line = "json"
          /\ \E j \in 1..Len(Member(last.stdout[i].doc, "items").elems) :
                Member(Member(last.stdout[i].doc, "items").elems[j], "value") = JNull
    /\ started
    /\ \E j \in 1..Len(startupReport.items) : IsNone(startupReport.items[j].value)

----------------------------------------------------------------------------
(* Properties of the renderings *)

\* The parsed document p carries the fields of report r, item by item
Reproduces(p, r) ==
    /\ DOMAIN p = ReportKeys
    /\ p.overall_status = StatusValue(r.overall_status)
    /\ p.summary = r.summary
    /\ Len(p.items) = Len(r.items)
    /\ \A i \in 1..Len(r.items) :
          /\ DOMAIN p.items[i] = ItemKeys
          /\ p.items[i].name = r.items[i].name
          /\ p.items[i].status = StatusValue(r.items[i].status)
          /\ p.items[i].message = r.items[i].message
          /\ p.items[i].required = r.items[i].required
          /\ p.items[i].value = r.items[i].value

JsonDocs == { last.stdout[i].doc : i \in { k \in 1..Len(last.stdout) : last.stdout[k].line = "json" } }

\* C11: parsing the JSON document of a report gives back its to_dict() form,
\* with each item's name, status tag, message, required flag and value (None
\* for an absent value) in the report's order, and the overall_status and
\* summary: for the document the tool prints under --json and for the
\* document of the start-up report.
C11_RoundTrip ==
    /\ started =>
          /\ JsonLoads(JsonDumps(ToDict(startupReport))) = ToDict(startupReport)
          /\ Reproduces(JsonLoads(JsonDumps(ToDict(startupReport))), startupReport)
    /\ JsonRun =>
          /\ JsonDocs # {}
          /\ \A doc \in JsonDocs :
                /\ JsonLoads(doc) = ToDict(last.report[1])
                /\ Reproduces(JsonLoads(doc), last.report[1])

\* The tool has printed a document that parses to items with and without a value
C11_Witness ==
    /\ JsonRun
    /\ \E doc \in JsonDocs :
          /\ \E i \in 1..Len(JsonLoads(doc).items) : JsonLoads(doc).items[i].value = None
          /\ \E i \in 1..Len(JsonLoads(doc).items) :
                JsonLoads(doc).items[i].value = Some(ValidKey)


\* The run has printed the status listing: the tool without --json, --quiet
\* and --check-cors, or the start-up of the service on an invalid report
StatusPrinted ==
    \/ IsCliRun /\ ~last.args.json /\ ~last.args.quiet /\ ~last.args.check_cors
    \/ last.kind = "startup" /\ started /\ last.stdout # <<>>

\* The report the listing was printed for
PrintedReport == IF IsCliRun THEN last.report[1] ELSE startupReport

LinesOf(kind) == { i \in 1..Len(last.stdout) : last.stdout[i].line = kind }

\* The status of the group heading above line i
GroupAbove(i) ==
    last.stdout[CHOOSE g \in LinesOf("group") :
                    g < i /\ \A h \in LinesOf("group") : h < i => h <= g].status

\* The order of the groups that the listing is to follow
GroupOrder == <<"INVALID", "MISSING", "WARNING", "VALID">>

PositionIn(seq, x) == CHOOSE i \in 1..Len(seq) : seq[i] = x

ItemPosition(r, name) == CHOOSE k \in 1..Len(r.items) : r.items[k].name = name

\* Item k of report r is listed once, under its status, with its marker
ListedOnce(r, k) ==
    /\ Cardinality({ i \in LinesOf("item") : last.stdout[i].name = r.items[k].name }) = 1
    /\ \A i \in LinesOf("item") :
          last.stdout[i].name = r.items[k].name =>
              /\ \E g \in LinesOf("group") : g < i
              /\ GroupAbove(i) = r.items[k].status
              /\ last.stdout[i].required_mark =
                    IF r.items[k].required THEN "[required]" ELSE "[optional]"
              /\ last.stdout[i].message = r.items[k].message

\* C12: the status listing has one group per status that has items, the groups
\* in the order INVALID, MISSING, WARNING, VALID; every item of the report is
\* listed exactly once, in the group of its status, with the required marker
\* when it is required and the optional marker otherwise; the items of a group
\* are in report order; no group is printed without items.
C12_GroupedListing ==
    StatusPrinted =>
        /\ Cardinality(LinesOf("item")) = Len(PrintedReport.items)
        /\ \A k \in 1..Len(PrintedReport.items) : ListedOnce(PrintedReport, k)
        /\ \A g, h \in LinesOf("group") :
              g < h => PositionIn(GroupOrder, last.stdout[g].status)
                          < PositionIn(GroupOrder, last.stdout[h].status)
        /\ { last.stdout[g].status : g \in LinesOf("group") }
              = ItemStatuses(PrintedReport)
        /\ \A g \in LinesOf("group") : (g + 1) \in LinesOf("item")
        /\ \A i, j \in LinesOf("item") :
              (i < j /\ GroupAbove(i) = GroupAbove(j)) =>
                  ItemPosition(PrintedReport, last.stdout[i].name)
                     < ItemPosition(PrintedReport, last.stdout[j].name)

\* The tool has listed an INVALID, a MISSING and two WARNING items: three
\* groups, none for VALID
C12_Witness ==
    /\ IsCliRun /\ StatusPrinted
    /\ [k \in 1..Len(PrintedReport.items) |-> PrintedReport.items[k].status]
          = <<"MISSING", "INVALID", "WARNING", "WARNING">>
    /\ Cardinality(LinesOf("group")) = 3
    /\ Cardinality(LinesOf("item")) = 4


----------------------------------------------------------------------------
(* Properties of the recommendations *)

\* The recommendation the rule gives for an entry of to_dict()["items"]
RuleFor(entry) ==
    CASE entry.status = "missing" /\ entry.required -> <<"set", entry.name>>
      [] entry.status = "invalid" -> <<"fix", entry.name>>
      [] entry.status = "warning" /\ ~entry.required -> <<"consider", entry.name>>
      [] OTHER -> <<"none", entry.name>>

\* The recommendations the rule gives for the entries, in their order
RuleForAll(entries) ==
    SelectSeq([i \in 1..Len(entries) |-> RuleFor(entries[i])],
              LAMBDA rec : rec[1] # "none")

\* What a produced recommendation says
Says(rec) ==
    CASE rec.text \in {"set the required environment variable",
                       "set the required environment variable: export"}
             -> <<"set", rec.name>>
      [] rec.text = "fix the format of environment variable" -> <<"fix", rec.name>>
      [] rec.text = "consider setting the optional environment variable"
             -> <<"consider", rec.name>>
      [] OTHER -> <<"affirmative", rec.name>>

\* The per-item recommendations of a /config/validate body
ServedRecommendations ==
    SelectSeq([i \in 1..Len(last.body.recommendations) |->
                  Says(last.body.recommendations[i])],
              LAMBDA rec : rec[1] # "affirmative")

\* The recommendations the tool has printed, in the order printed
PrintedRecommendations ==
    [n \in 1..Cardinality(LinesOf("recommendation")) |->
        Says(last.stdout[CHOOSE i \in LinesOf("recommendation") :
                             last.stdout[i].number = n].rec)]

\* C13 as claimed: the recommendations served by /config/validate and those
\* printed by the tool are the ones the rule gives for the report's items, in
\* item order: set <name> for MISSING and required, fix <name> for INVALID,
\* consider <name> for WARNING and optional, none for VALID.
C13_OneRecommendationRule ==
    /\ IsResponse("/config/validate") =>
          ServedRecommendations = RuleForAll(last.body.report.items)
    /\ StatusPrinted /\ IsCliRun =>
          PrintedRecommendations = RuleForAll(ToDict(last.report[1]).items)

\* The affirmative messages in the output of a run of the tool: print_recommendations
\* prints none; the closing line of main for a VALID report is counted as one
PrintedAffirmations == Cardinality(LinesOf("validation passed"))

AllValid(entries) == \A i \in 1..Len(entries) : entries[i].status = "valid"

\* C14 as claimed: where no item produced a recommendation the output is
\* exactly one affirmative message, served by /config/validate or printed by
\* the tool; with all four variables valid the overall status is VALID, no
\* per-item recommendation is produced and the one affirmative message is there.
C14_AffirmativeMessage ==
    /\ IsResponse("/config/validate") =>
          /\ ServedRecommendations = <<>> =>
                /\ Len(last.body.recommendations) = 1
                /\ Says(last.body.recommendations[1])[1] = "affirmative"
          /\ AllValid(last.body.report.items) =>
                /\ last.body.report.overall_status = "valid"
                /\ ServedRecommendations = <<>>
    /\ StatusPrinted /\ IsCliRun =>
          /\ PrintedRecommendations = <<>> => PrintedAffirmations = 1
          /\ AllValid(ToDict(last.report[1]).items) =>
                /\ last.report[1].overall_status = "VALID"
                /\ PrintedRecommendations = <<>>
                /\ PrintedAffirmations = 1


----------------------------------------------------------------------------
(* Properties of the accessors *)

\* C15 as claimed: the base URL served by /health is the value of
\* RAILWAY_STATIC_URL whenever the variable is present, that is whenever the
\* report's RAILWAY_STATIC_URL item is VALID or INVALID and carries that value,
\* and the default http://localhost:8000 exactly when the variable is absent,
\* that is when the item is WARNING.
C15_BaseUrlAgreesWithValidator ==
    IsResponse("/health") =>
        /\ Present(env, "RAILWAY_STATIC_URL") =>
              /\ ItemNamed(startupReport, "RAILWAY_STATIC_URL").status \in {"VALID", "INVALID"}
              /\ ItemNamed(startupReport, "RAILWAY_STATIC_URL").value
                    = Getenv(env, "RAILWAY_STATIC_URL")
              /\ last.body.api_base_url = Getenv(env, "RAILWAY_STATIC_URL")[1]
        /\ ~Present(env, "RAILWAY_STATIC_URL") =>
              /\ ItemNamed(startupReport, "RAILWAY_STATIC_URL").status = "WARNING"
              /\ last.body.api_base_url = DEFAULT_API_BASE_URL
        /\ last.body.api_base_url = DEFAULT_API_BASE_URL
              => ~Present(env, "RAILWAY_STATIC_URL")


\* The lists of elements that the value of CORS_ORIGINS in e is written from
WrittenFrom(e) ==
    { c \in OriginLists : Getenv(e, "CORS_ORIGINS") = Some(JoinOrigins(c)) }

\* The trimmed, non-empty elements of a list, in their order
Texts(c) == SelectSeq([i \in 1..Len(c) |-> c[i].text], LAMBDA t : t # <<>>)

LocalOrigin ==
    <<"h","t","t","p",":","/","/","l","o","c","a","l","h","o","s","t",":","5","1","7","3">>

AccessorsCalled == last.kind = "accessors"

\* C16: get_cors_origins returns the comma-separated elements of CORS_ORIGINS,
\* each without the whitespace around it, the empty ones dropped, in their
\* order, when the variable is present (so * gives ["*"], and an empty value
\* gives the empty list); it returns ["http://localhost:5173"] when the
\* variable is absent.
C16_OriginList ==
    AccessorsCalled =>
        /\ ~Present(env, "CORS_ORIGINS") => last.cors_origins = <<LocalOrigin>>
        /\ \A c \in WrittenFrom(env) : last.cors_origins = Texts(c)
        /\ Getenv(env, "CORS_ORIGINS") = Some(<<"*">>) => last.cors_origins = << <<"*">> >>
        /\ Getenv(env, "CORS_ORIGINS") = Some(<<>>) => last.cors_origins = <<>>

\* The accessor has returned two origins from a value of two padded elements
C16_Witness ==
    /\ AccessorsCalled
    /\ \E c \in WrittenFrom(env) :
          /\ Len(c) = 2
          /\ c[1].raw # c[1].text
          /\ c[1].text # c[2].text
          /\ last.cors_origins = <<c[1].text, c[2].text>>

\* The status of the CORS_ORIGINS item in the report of call c
CorsStatus(c) == ItemNamed(c.result, "CORS_ORIGINS").status

\* C17 as claimed: a present CORS_ORIGINS is VALID iff its comma-separated
\* elements, each without the whitespace around it, are all * or an http/https
\* origin scheme://host[:port] (and there is at least one element).
C17_AllElementsAreOrigins ==
    \A c \in Returned :
        \A els \in WrittenFrom(c.environ) :
            CorsStatus(c) = "VALID" <=> \A i \in 1..Len(els) : els[i].origin

\* C17: a present CORS_ORIGINS is VALID iff, of its comma-separated elements
\* taken without the whitespace around them and with the empty ones dropped,
\* at least one is left and every one left is * or an http/https origin
\* scheme://host[:port]; otherwise it is INVALID.  The empty string, an element
\* without scheme, with the scheme ftp, and http:// without host are rejected.
C17_CorsPredicate ==
    \A c \in Returned :
        \A els \in WrittenFrom(c.environ) :
            /\ CorsStatus(c) = "VALID" <=>
                  /\ Texts(els) # <<>>
                  /\ \A i \in 1..Len(els) : els[i].text # <<>> => els[i].origin
            /\ CorsStatus(c) \in {"VALID", "INVALID"}

\* A value with an origin and an empty element has been reported VALID
C17_Witness ==
    \E c \in Returned :
        \E els \in WrittenFrom(c.environ) :
            /\ Len(els) = 2
            /\ els[1].origin /\ els[1].text # <<"*">>
            /\ els[2].text = <<>>
            /\ CorsStatus(c) = "VALID"

\* C18: a present SECRET_KEY of fewer than 32 characters is INVALID, and the
\* report then INVALID overall; one of 32 characters or more is VALID.
C18_SecretKeyLength ==
    \A c \in Returned :
        Present(c.environ, "SECRET_KEY") =>
            IF Len(Getenv(c.environ, "SECRET_KEY")[1]) >= 32
            THEN ItemNamed(c.result, "SECRET_KEY").status = "VALID"
            ELSE /\ ItemNamed(c.result, "SECRET_KEY").status = "INVALID"
                 /\ c.result.overall_status = "INVALID"

\* A key of exactly 32 characters has been reported VALID
C18_Witness ==
    \E c \in Returned :
        /\ Present(c.environ, "SECRET_KEY")
        /\ Len(Getenv(c.environ, "SECRET_KEY")[1]) = 32
        /\ ItemNamed(c.result, "SECRET_KEY").status = "VALID"
        /\ c.environ = launchEnv


----------------------------------------------------------------------------
(* Properties of the calls *)

ItemNames(r) == [i \in 1..Len(r.items) |-> r.items[i].name]

\* C19: the items of every report are, in this order, SECRET_KEY,
\* CORS_ORIGINS (the required entries, in REQUIRED_VARS order), DATABASE_URL,
\* RAILWAY_STATIC_URL (the optional entries, in OPTIONAL_VARS order), whatever
\* the environment holds.
C19_SchemaOrder ==
    \A c \in Returned :
        /\ ItemNames(c.result)
              = <<"SECRET_KEY", "CORS_ORIGINS", "DATABASE_URL", "RAILWAY_STATIC_URL">>
        /\ [i \in 1..Len(c.result.items) |-> c.result.items[i].required]
              = <<TRUE, TRUE, FALSE, FALSE>>

\* Reports on two environments, with different statuses for three of the
\* variables, in the same order
C19_Witness ==
    \E c1, c2 \in Returned :
        /\ c1.environ # c2.environ
        /\ \A i \in 1..3 : c1.result.items[i].status # c2.result.items[i].status
        /\ ItemNames(c1.result) = ItemNames(c2.result)


\* The passes thread c has completed in its current call
PassesDone(c) ==
    CASE frames[c].at = "required" -> frames[c].i - 1
      [] frames[c].at = "optional" -> Len(REQUIRED_VARS) + frames[c].i - 1
      [] frames[c].at \in {"return", "done"} -> Len(REQUIRED_VARS) + Len(OPTIONAL_VARS)
      [] OTHER -> 0

\* C20: however the calls of the threads interleave over an unchanged
\* environment, a call that has returned has returned the report of a single
\* sequential call, and a call under way holds exactly the items of the passes
\* it has made itself, with the flags those items give: nothing of another call.
C20_NoSynchronizationNeeded ==
    \A c \in Callers :
        /\ frames[c].at = "done" => frames[c].result = ValidateEnvironmentVariables(env)
        /\ frames[c].at # "idle" =>
              /\ locals[c].items
                    = SubSeq(ValidateEnvironmentVariables(env).items, 1, PassesDone(c))
              /\ locals[c].has_errors = RequiredFailure([items |-> locals[c].items])
              /\ locals[c].has_warnings = OptionalConcern([items |-> locals[c].items])

\* One thread has returned an INVALID report while another, entered before the
\* first returned, is half way through its own call
C20_Witness ==
    \E c1, c2 \in Callers :
        /\ frames[c1].at = "done"
        /\ frames[c1].result.overall_status = "INVALID"
        /\ Len(frames[c1].result.items) = Cardinality(VarNames)
        /\ frames[c2].at = "optional" /\ frames[c2].i = 1
        /\ Len(locals[c2].items) = Len(REQUIRED_VARS)


\* The environment after the first n assignments of setup_environment_defaults
DefaultsApplied(e, n) ==
    IF n = 0 THEN e
    ELSE IF n = 1 THEN SetDefault(e, SetupDefaults[1])
    ELSE IF n = 2 THEN SetDefault(SetDefault(e, SetupDefaults[1]), SetupDefaults[2])
    ELSE SetDefault(SetDefault(SetDefault(e, SetupDefaults[1]), SetupDefaults[2]),
                    SetupDefaults[3])

\* The states the environment has had since the process started, the ones
\* between the assignments of setup_environment_defaults included
StatesHad ==
    IF env = launchEnv THEN {launchEnv}
    ELSE { DefaultsApplied(launchEnv, n) : n \in 0..3 }

\* C21 as claimed: the report a call returns is the report of one state the
\* environment has had, also when setup_environment_defaults has changed the
\* environment while the call was under way.
C21_OneEnvironmentPerCall ==
    \A c \in Callers :
        frames[c].at = "done" =>
            \E e \in StatesHad : frames[c].result = ValidateEnvironmentVariables(e)

-----------------------------------------------------------------------------
(* The engine under updates of the environment *)

Called == { m \in Managers : report[m].called }

\* The variable has a non-empty value in the environment
Filled(e, name) == e[name] # None /\ e[name] # Some(<<>>)

\* A step in which a call of the engine returned
CallReturns == report' # report \/ last' # last

SameAnswers ==
    \A m1, m2 \in Called :
        report[m1].environ = report[m2].environ => report[m1].result = report[m2].result

ExampleOrigin ==
    <<"h","t","t","p","s",":","/","/","e","x","a","m","p","l","e",".","c","o","m">>

\* What the accessors must answer in an environment of this specification
LatestBaseUrl ==
    IF Filled(env, "RAILWAY_STATIC_URL") THEN env["RAILWAY_STATIC_URL"][1]
    ELSE <<"h","t","t","p",":","/","/","l","o","c","a","l","h","o","s","t",":","8","0","0","0">>

LatestOrigins ==
    IF env["CORS_ORIGINS"] = Some(<<"*">>) THEN << <<"*">> >>
    ELSE <<LocalOrigin, ExampleOrigin>>

\* The report was made from the environment the call ran in
Reflects(c) ==
    /\ IsReport(c.result)
    /\ \A name \in VarNames :
          Present(c.environ, name) => ItemNamed(c.result, name).value = c.environ[name]
    /\ (ItemNamed(c.result, "SECRET_KEY").status = "VALID")
          = (c.environ["SECRET_KEY"] = Some(ValidKey))
    /\ (ItemNamed(c.result, "RAILWAY_STATIC_URL").status = "VALID")
          = (c.environ["RAILWAY_STATIC_URL"] = Some(RailwayUrl))
    /\ (ItemNamed(c.result, "DATABASE_URL").status = "WARNING")
          = (c.environ["DATABASE_URL"] = None)

EveryReportReflects == \A m \in Called : Reflects(report[m])

InstancesAgree ==
    \A m1, m2 \in Called :
        (report[m1].environ = env /\ report[m2].environ = env)
            => report[m1].result = report[m2].result

\* C24: nothing is cached across updates of the environment: after any
\* sequence of updates of SECRET_KEY, CORS_ORIGINS, RAILWAY_STATIC_URL or
\* DATABASE_URL, a call of validate_environment_variables on a long-lived
\* instance reports the environment as it is at the call, the accessors answer
\* with the base URL of the latest RAILWAY_STATIC_URL and the origins of the
\* latest CORS_ORIGINS, and the instances that validated since the last update
\* agree.
C24_NoCaching ==
    /\ [](EveryReportReflects /\ InstancesAgree)
    /\ [][last' # last =>
             (last'.api_base_url = LatestBaseUrl /\ last'.cors_origins = LatestOrigins)]_vars

\* After an update of RAILWAY_STATIC_URL the accessors answered with the new
\* URL and an instance validated the new environment
C24_Witness ==
    /\ launchEnv["RAILWAY_STATIC_URL"] = None
    /\ env["RAILWAY_STATIC_URL"] = Some(RailwayUrl)
    /\ AccessorsCalled
    /\ last.api_base_url = RailwayUrl
    /\ \E m \in Called : report[m].environ = env


-----------------------------------------------------------------------------
(* setup_environment_defaults *)

Defaulted == {"SECRET_KEY", "CORS_ORIGINS", "DATABASE_URL"}

FixedDefault(name) ==
    CASE name = "SECRET_KEY" -> DEFAULT_SECRET_KEY
      [] name = "CORS_ORIGINS" -> LocalOrigin
      [] name = "DATABASE_URL" -> SqlitePrefix \o <<"/",".","/","r","e","c","i","p","e","s",".","d","b">>

\* setup_environment_defaults has run in this process
DefaultsSet == startupReport # NoCall

\* C23: after setup_environment_defaults, from any starting environment,
\* SECRET_KEY, CORS_ORIGINS and DATABASE_URL all have non-empty values: one
\* that had a non-empty value keeps it, one that was absent or empty has its
\* fixed default, and every other variable, RAILWAY_STATIC_URL included, is as
\* it was.
C23_DefaultsFilled ==
    DefaultsSet =>
        /\ \A name \in Defaulted :
              /\ Filled(env, name)
              /\ Filled(launchEnv, name) => env[name] = launchEnv[name]
              /\ ~Filled(launchEnv, name) => env[name] = Some(FixedDefault(name))
        /\ \A name \in (DOMAIN env) \ Defaulted : env[name] = launchEnv[name]

\* The defaults were set where SECRET_KEY was empty, CORS_ORIGINS was absent,
\* DATABASE_URL had a value and RAILWAY_STATIC_URL was empty
C23_Witness ==
    /\ DefaultsSet
    /\ launchEnv["SECRET_KEY"] = Some(<<>>)
    /\ launchEnv["CORS_ORIGINS"] = None
    /\ launchEnv["DATABASE_URL"] = Some(MysqlUrl)
    /\ launchEnv["RAILWAY_STATIC_URL"] = Some(<<>>)
    /\ env["SECRET_KEY"] = Some(DEFAULT_SECRET_KEY)
    /\ env["DATABASE_URL"] = Some(MysqlUrl)


-----------------------------------------------------------------------------
(* The report as a whole and its items *)

\* The values of the environments explored that pass the predicate of an entry
Passing(name) ==
    CASE name = "SECRET_KEY" -> {ValidKey, DEFAULT_SECRET_KEY}
      [] name = "CORS_ORIGINS" -> {<<"*">>, TwoOrigins, LocalOrigin}
      [] name = "DATABASE_URL" -> {MysqlUrl, FixedDefault("DATABASE_URL")}
      [] name = "RAILWAY_STATIC_URL" -> {RailwayUrl}

Passes(e, name) == Present(e, name) /\ e[name][1] \in Passing(name)

EveryItemValid(r) == \A i \in 1..Len(r.items) : r.items[i].status = "VALID"

\* C25: overall_status is VALID exactly when every item, required and
\* optional, is VALID, that is exactly when all four schema variables are
\* present and pass their predicates; a VALID overall status implies that
\* every required item is VALID, and an environment with valid required
\* variables and no optional one gives WARNING.
C25_ValidIffAllValid ==
    \A c \in Returned :
        /\ (c.result.overall_status = "VALID") = EveryItemValid(c.result)
        /\ (c.result.overall_status = "VALID") = (\A name \in VarNames : Passes(c.environ, name))
        /\ c.result.overall_status = "VALID" => AllRequiredValid(c.result)
        /\ ( /\ \A name \in RequiredNames : Passes(c.environ, name)
             /\ \A name \in OptionalNames : ~Present(c.environ, name) )
              => c.result.overall_status = "WARNING"

\* A report with overall status VALID on an environment that sets all four
\* variables
C25_Witness ==
    \E c \in Returned :
        /\ c.result.overall_status = "VALID"
        /\ \A name \in VarNames : Present(c.environ, name)
        /\ Len(c.result.items) = 4

\* C26: overall_status and summary are set together: overall_status is VALID,
\* INVALID or WARNING, never MISSING, and summary is the sentence of that
\* status.
C26_StatusAndSummary ==
    \A c \in Returned :
        /\ c.result.overall_status \in {"VALID", "INVALID", "WARNING"}
        /\ (c.result.summary = SummaryInvalid) = (c.result.overall_status = "INVALID")
        /\ (c.result.summary = SummaryWarning) = (c.result.overall_status = "WARNING")
        /\ (c.result.summary = SummaryValid) = (c.result.overall_status = "VALID")

\* A report with the sentence of INVALID before the defaults were set and one
\* with the sentence of WARNING after
C26_Witness ==
    /\ \E c \in Returned :
          c.result.overall_status = "INVALID" /\ c.result.summary = SummaryInvalid
    /\ \E c \in Returned :
          c.result.overall_status = "WARNING" /\ c.result.summary = SummaryWarning

ItemsOf(r) == { r.items[i] : i \in 1..Len(r.items) }

\* C27: in every report MISSING occurs only on required items and WARNING only
\* on optional items; a required item is MISSING, INVALID or VALID and an
\* optional item is WARNING, INVALID or VALID.
C27_StatusFitsRequired ==
    \A c \in Returned :
        \A item \in ItemsOf(c.result) :
            /\ item.status = "MISSING" => item.required
            /\ item.status = "WARNING" => ~item.required
            /\ item.required => item.status \in {"MISSING", "INVALID", "VALID"}
            /\ ~item.required => item.status \in {"WARNING", "INVALID", "VALID"}

\* A report with a MISSING and an INVALID required item and with a WARNING
\* and an INVALID optional item
C27_Witness ==
    \E c \in Returned :
        /\ ItemNamed(c.result, "SECRET_KEY").status = "MISSING"
        /\ ItemNamed(c.result, "CORS_ORIGINS").status = "INVALID"
        /\ ItemNamed(c.result, "DATABASE_URL").status = "WARNING"
        /\ ItemNamed(c.result, "RAILWAY_STATIC_URL").status = "INVALID"

\* C28: a MISSING item has no value; a VALID or INVALID item carries the
\* environment's value of its variable; a WARNING item carries the schema
\* default when the entry has a non-empty one (DATABASE_URL) and no value
\* otherwise (RAILWAY_STATIC_URL).
C28_ValueFitsStatus ==
    \A c \in Returned :
        \A item \in ItemsOf(c.result) :
            /\ item.status = "MISSING" => item.value = None
            /\ item.status \in {"VALID", "INVALID"} =>
                  (Present(c.environ, item.name) /\ item.value = c.environ[item.name])
            /\ item.status = "WARNING" =>
                  item.value = IF item.name = "DATABASE_URL"
                               THEN Some(FixedDefault("DATABASE_URL")) ELSE None

\* An item carries the default although its variable is absent, next to a
\* MISSING item and an INVALID one carrying the empty string
C28_Witness ==
    \E c \in Returned :
        /\ ~Present(c.environ, "DATABASE_URL")
        /\ ItemNamed(c.result, "DATABASE_URL").value # None
        /\ ItemNamed(c.result, "RAILWAY_STATIC_URL").value = None
        /\ ItemNamed(c.result, "SECRET_KEY").status = "MISSING"
        /\ ItemNamed(c.result, "CORS_ORIGINS").value = Some(<<>>)

Schema == REQUIRED_VARS \o OPTIONAL_VARS

EntryOf(name) == Schema[CHOOSE i \in 1..Len(Schema) : Schema[i].name = name]

\* C29: a variable set to the empty string is present for the engine: for
\* each of the four entries its item is INVALID with the entry's error
\* message, never MISSING or WARNING; an empty required variable makes the
\* overall status INVALID, an empty optional one keeps it from being VALID.
C29_EmptyIsPresent ==
    \A c \in Returned :
        \A name \in VarNames :
            c.environ[name] = Some(<<>>) =>
                /\ ItemNamed(c.result, name).status = "INVALID"
                /\ ItemNamed(c.result, name).message = <<EntryOf(name).error_msg, "">>
                /\ name \in RequiredNames => c.result.overall_status = "INVALID"
                /\ name \in OptionalNames => c.result.overall_status \in {"INVALID", "WARNING"}

\* Reports on an environment with all four variables empty and on one with
\* only an optional variable empty
C29_Witness ==
    /\ \E c \in Returned :
          /\ \A name \in VarNames : c.environ[name] = Some(<<>>)
          /\ c.result.overall_status = "INVALID"
    /\ \E c \in Returned :
          /\ c.environ["RAILWAY_STATIC_URL"] = Some(<<>>)
          /\ c.result.overall_status = "WARNING"

\* The validations made in the environment as the defaults left it
AfterDefaults == { c \in Returned : c.environ = env }

\* C30: once main.py has set the defaults and the environment stays as it is,
\* every validation reports no item MISSING and DATABASE_URL never WARNING;
\* the overall status is INVALID only if SECRET_KEY or CORS_ORIGINS held a
\* non-empty value failing its predicate before the defaults were set; and
\* setting the defaults again changes nothing.
C30_StartupSequence ==
    started =>
        /\ \A c \in AfterDefaults :
              /\ \A item \in ItemsOf(c.result) : item.status # "MISSING"
              /\ ItemNamed(c.result, "DATABASE_URL").status # "WARNING"
              /\ c.result.overall_status = "INVALID" =>
                    \E name \in RequiredNames :
                        Filled(launchEnv, name) /\ ~Passes(launchEnv, name)
        /\ SetupEnvironmentDefaults(env) = env

\* Started without SECRET_KEY and with an invalid CORS_ORIGINS: the start-up
\* validation and a later one on a manager instance are INVALID
C30_Witness ==
    /\ started
    /\ launchEnv["SECRET_KEY"] = None
    /\ launchEnv["CORS_ORIGINS"] = Some(InvalidUrl)
    /\ launchEnv["DATABASE_URL"] = None
    /\ startupReport.overall_status = "INVALID"
    /\ \E m \in Managers :
          /\ report[m].called /\ report[m].environ = env
          /\ report[m].result.overall_status = "INVALID"


====
